---- MODULE Spec2Model ----
(***************************************************************************)
(* Model of the dashboard's retrieval / validation / derivation pipeline:  *)
(*   dashboard/data_fetcher.py  fetch_stock_data                           *)
(*   dashboard/callbacks.py     update_charts                              *)
(*                                                                         *)
(* A pandas DataFrame is a record [index, cols]: index is the sequence of  *)
(* row labels, cols the ordered sequence of columns [name, vals].  A JSON  *)
(* value or a DataFrame cell is a record [k, v, n]: k is its kind and     *)
(* v / n its number (0 / 1 when the kind carries none), so that a mean or  *)
(* a ratio is kept exactly.                                                *)
(***************************************************************************)
EXTENDS Integers, Sequences, FiniteSets, TLC

\* ---------------------------------------------------------------- bounds
MaxRows == 2
MaxDefects == 2
Extra == 1

\* ------------------------------------------------------ program constants
TIMEOUT == 10
MA50_WINDOW == 50
MA200_WINDOW == 200
VOL_WINDOW == 30

DEFAULT_API_BASE_URL == "http://localhost:8000"

TEST_API_BASE_URL == "http://mockapi.com"

\* ------------------------------------------------------------------ cells
Num(x) == [k |-> "num", v |-> x, n |-> 1]
NumText(x) == [k |-> "numtext", v |-> x, n |-> 1]
Text == [k |-> "text", v |-> 0, n |-> 1]
Null == [k |-> "null", v |-> 0, n |-> 1]
Iso(d) == [k |-> "iso", v |-> d, n |-> 1]
NaN == [k |-> "nan", v |-> 0, n |-> 1]
NaT == [k |-> "nat", v |-> 0, n |-> 1]
Timestamp(d) == [k |-> "ts", v |-> d, n |-> 1]
\* The float v / n.
Float(v, n) == [k |-> "float", v |-> v, n |-> n]

IsNull(c) == c.k \in {"nan", "nat", "null"}

Min(a, b) == IF a <= b THEN a ELSE b

\* ------------------------------------------------------ the remote payload
ApiKeys == {"date", "open", "high", "low", "close", "volume"}

\* The order in which the columns of a frame built from point-records appear.
KeyOrder == <<"date", "Date", "open", "Open", "high", "low", "close", "volume">>

FieldBase == [open |-> 150, high |-> 170, low |-> 130, close |-> 155, volume |-> 1000]

BaseValue(r, key) == FieldBase[key] + ((r * r) % 7)

BaseRow(r) ==
    [key \in ApiKeys |-> IF key = "date" THEN Iso(r) ELSE Num(BaseValue(r, key))]

BaseRows(n) == [r \in 1..n |-> BaseRow(r)]

REQUESTED_SYMBOL == "TEST"

Str(s) == [k |-> "str", s |-> s]
NotStr == [k |-> "num", s |-> ""]

BaseDoc(rows) ==
    [shape |-> "mapping", has_symbol |-> TRUE, symbol |-> Str(REQUESTED_SYMBOL),
     has_data |-> TRUE, data_kind |-> "list", rows |-> rows]

BaseResponse(rows) == [outcome |-> "ok", body |-> "json", doc |-> BaseDoc(rows)]

\* ---------------------------------------------------------------- defects
\* A defect is one deviation of the remote's answer from the documented one.
NoDefect == [t |-> "none", r |-> 0, key |-> "", kind |-> ""]

EnvelopeKinds ==
    {"ConnectionError", "Timeout", "HTTPError",
     "json.JSONDecodeError", "requests.JSONDecodeError", "UnicodeDecodeError",
     "not_mapping", "no_symbol", "symbol_case", "symbol_other", "symbol_not_str",
     "no_data", "data_not_list", "data_empty"}

CellKinds(key) ==
    IF key = "date" THEN {"drop", "text", "dup", "late", "cap"}
    ELSE IF key = "open" THEN {"drop", "text", "numtext", "cap"}
    ELSE IF key = "volume" THEN {"drop", "text", "null"}
    ELSE {"drop", "text"}

Defects(n) ==
    {NoDefect}
    \cup {[t |-> "env", r |-> 0, key |-> "", kind |-> e] : e \in EnvelopeKinds}
    \cup UNION {UNION {{[t |-> "cell", r |-> r, key |-> key, kind |-> c] :
                            c \in CellKinds(key)} : key \in ApiKeys} : r \in 1..n}

Without(f, key) == [x \in (DOMAIN f) \ {key} |-> f[x]]

With(f, key, val) == [x \in (DOMAIN f) \cup {key} |-> IF x = key THEN val ELSE f[x]]

Capital(key) == IF key = "date" THEN "Date" ELSE "Open"

ApplyCell(row, d, n) ==
    IF d.key \notin DOMAIN row THEN row
    ELSE CASE d.kind = "drop" -> Without(row, d.key)
           [] d.kind = "text" -> With(row, d.key, Text)
           [] d.kind = "null" -> With(row, d.key, Null)
           [] d.kind = "numtext" ->
                IF row[d.key].k = "num" THEN With(row, d.key, NumText(row[d.key].v))
                ELSE row
           [] d.kind = "dup" -> With(row, d.key, Iso((d.r % n) + 1))
           [] d.kind = "late" -> With(row, d.key, Iso(n + 1))
           [] d.kind = "cap" -> With(Without(row, d.key), Capital(d.key), row[d.key])

ApplyEnvelope(resp, e) ==
    CASE e \in {"ConnectionError", "Timeout", "HTTPError"} -> [resp EXCEPT !.outcome = e]
      [] e \in {"json.JSONDecodeError", "requests.JSONDecodeError", "UnicodeDecodeError"} ->
            [resp EXCEPT !.body = e]
      [] e = "not_mapping" -> [resp EXCEPT !.doc.shape = "list"]
      [] e = "no_symbol" -> [resp EXCEPT !.doc.has_symbol = FALSE]
      [] e = "symbol_case" -> [resp EXCEPT !.doc.symbol = Str("test")]
      [] e = "symbol_other" -> [resp EXCEPT !.doc.symbol = Str("OTHR")]
      [] e = "symbol_not_str" -> [resp EXCEPT !.doc.symbol = NotStr]
      [] e = "no_data" -> [resp EXCEPT !.doc.has_data = FALSE]
      [] e = "data_not_list" -> [resp EXCEPT !.doc.data_kind = "text"]
      [] e = "data_empty" -> [resp EXCEPT !.doc.rows = <<>>]

Apply(resp, d) ==
    CASE d.t = "none" -> resp
      [] d.t = "env" -> ApplyEnvelope(resp, d.kind)
      [] d.t = "cell" ->
            IF d.r \in DOMAIN resp.doc.rows
            THEN [resp EXCEPT !.doc.rows[d.r] = ApplyCell(@, d, Len(resp.doc.rows))]
            ELSE resp

RECURSIVE ApplyFrom(_, _, _)
ApplyFrom(resp, ds, i) ==
    IF i > MaxDefects THEN resp ELSE ApplyFrom(Apply(resp, ds[i]), ds, i + 1)

\* The answers of n point-records with at most MaxDefects defects.
Defective(n, ds) == ApplyFrom(BaseResponse(BaseRows(n)), ds, 1)

\* Series longer than the rolling windows, by at most Extra rows.
LongLengths == {w + e : w \in {MA50_WINDOW, MA200_WINDOW}, e \in 1..Extra}

Lengths == (1..MaxRows) \cup LongLengths

\* The defects that reach the derivation of update_charts or end it early.
ChartDefects(n) ==
    {NoDefect}
    \cup {[t |-> "env", r |-> 0, key |-> "", kind |-> e] :
             e \in {"Timeout", "data_empty", "symbol_other"}}
    \cup {[t |-> "cell", r |-> r, key |-> "close", kind |-> c] :
             r \in 1..n, c \in {"drop", "text"}}
    \cup {[t |-> "cell", r |-> r, key |-> "date", kind |-> "dup"] : r \in 1..n}

\* The defects tried on an answer of n point-records: all of them when
\* fetch_stock_data is called alone, those that matter to the charts when
\* update_charts calls it, and one unusable close on a long answer.
\* The defects met by invocations of update_charts that run at the same time.
RapidDefects(n) ==
    {NoDefect,
     [t |-> "env", r |-> 0, key |-> "", kind |-> "Timeout"],
     [t |-> "cell", r |-> n, key |-> "close", kind |-> "text"]}

DefectsOf(n, caller) ==
    IF n > MaxRows THEN {NoDefect, [t |-> "cell", r |-> 2, key |-> "close", kind |-> "text"]}
    ELSE IF caller = "update_charts" THEN ChartDefects(n)
    ELSE IF caller = "rapid_update" THEN RapidDefects(n)
    ELSE Defects(n)

LengthsOf(caller) == IF caller = "update_charts" THEN Lengths ELSE 1..MaxRows

\* ------------------------------------------------------------- DataFrames
EmptyFrame == [index |-> <<>>, cols |-> <<>>]

Empty(frame) == Len(frame.index) = 0 \/ Len(frame.cols) = 0

Columns(frame) == {frame.cols[j].name : j \in 1..Len(frame.cols)}

Positions(frame, name) == {j \in 1..Len(frame.cols) : frame.cols[j].name = name}

Column(frame, name) == frame.cols[CHOOSE j \in Positions(frame, name) : TRUE].vals

\* pd.DataFrame(list of dicts): one column per key met, NaN where a record lacks it.
DataFrame(rows) ==
    LET names == SelectSeq(KeyOrder, LAMBDA key : \E i \in 1..Len(rows) : key \in DOMAIN rows[i])
    IN [index |-> [i \in 1..Len(rows) |-> Num(i - 1)],
        cols |-> [j \in 1..Len(names) |->
                    [name |-> names[j],
                     vals |-> [i \in 1..Len(rows) |->
                                 IF names[j] \in DOMAIN rows[i] THEN rows[i][names[j]]
                                 ELSE NaN]]]]

column_mapping ==
    [date |-> "Date", open |-> "Open", high |-> "High", low |-> "Low",
     close |-> "Close", volume |-> "Volume"]

Rename(frame) ==
    [frame EXCEPT !.cols = [j \in 1..Len(frame.cols) |->
        [frame.cols[j] EXCEPT !.name = IF @ \in DOMAIN column_mapping
                                        THEN column_mapping[@] ELSE @]]]

required_cols == <<"Date", "Open", "High", "Low", "Close", "Volume">>

\* The gate taken as: no required value may be missing.
HasRequiredColsNoNaN(frame) ==
    /\ \A i \in 1..Len(required_cols) : required_cols[i] \in Columns(frame)
    /\ \A j \in 1..Len(frame.cols) : \A i \in 1..Len(frame.index) :
          ~IsNull(frame.cols[j].vals[i])

HasRequiredCols(frame) ==
    \A i \in 1..Len(required_cols) : required_cols[i] \in Columns(frame)

\* pd.to_datetime of one value.
ToDatetime(c) ==
    CASE c.k = "iso" -> Timestamp(c.v)
      [] c.k \in {"null", "nan"} -> NaT
      [] OTHER -> c

\* pd.to_datetime(df['Date'], errors='coerce'): a value that is no date does not raise.
ToDatetimeRaisesCoerce(frame) ==
    Cardinality(Positions(frame, "Date")) # 1

\* df['Date'] = pd.to_datetime(df['Date']) raises when the label selects no
\* column or several, or when a value is no date.
ToDatetimeRaises(frame) ==
    \/ Cardinality(Positions(frame, "Date")) # 1
    \/ \E i \in 1..Len(frame.index) : Column(frame, "Date")[i].k = "text"

\* df.set_index('Date') without inplace=True: the frame keeps its index and its
\* Date column.
SetDateIndexNotInPlace(frame) ==
    [frame EXCEPT !.cols = [j \in 1..Len(frame.cols) |->
        IF frame.cols[j].name = "Date"
        THEN [frame.cols[j] EXCEPT !.vals = [i \in DOMAIN @ |-> ToDatetime(@[i])]]
        ELSE frame.cols[j]]]

SetDateIndex(frame) ==
    LET dates == [i \in 1..Len(frame.index) |-> ToDatetime(Column(frame, "Date")[i])]
    IN [index |-> dates,
        cols |-> SelectSeq(frame.cols, LAMBDA col : col.name # "Date")]

\* pd.to_numeric(errors='ignore') of one value: what is no number is left as it is.
ToNumericIgnore(c) ==
    CASE c.k = "num" -> Num(c.v)
      [] c.k = "numtext" -> Num(c.v)
      [] OTHER -> c

\* pd.to_numeric(errors='coerce') of one value.
ToNumeric(c) ==
    CASE c.k = "num" -> Num(c.v)
      [] c.k = "numtext" -> Num(c.v)
      [] OTHER -> NaN

numeric_cols == <<"Open", "High", "Low", "Close">>

CoercedCols == numeric_cols \o <<"Volume">>

\* df[col] = pd.to_numeric(df[col]) raises when the label selects no column or
\* several.
ToNumericRaises(frame) ==
    \E i \in 1..Len(CoercedCols) : Cardinality(Positions(frame, CoercedCols[i])) # 1

CoerceNumeric(frame) ==
    [frame EXCEPT !.cols = [j \in 1..Len(frame.cols) |->
        IF \E i \in 1..Len(CoercedCols) : CoercedCols[i] = frame.cols[j].name
        THEN [frame.cols[j] EXCEPT !.vals = [i \in DOMAIN @ |-> ToNumeric(@[i])]]
        ELSE frame.cols[j]]]

AnyNull(frame) ==
    \E j \in 1..Len(frame.cols) : \E i \in 1..Len(frame.index) : IsNull(frame.cols[j].vals[i])

\* The frame lines 51-91 of fetch_stock_data make of the point-records.
SeriesOf(rows) ==
    IF rows = <<>> THEN EmptyFrame
    ELSE LET frame == Rename(DataFrame(rows))
         IN IF ~HasRequiredCols(frame) \/ ToDatetimeRaises(frame) THEN EmptyFrame
            ELSE IF ToNumericRaises(SetDateIndex(frame)) THEN EmptyFrame
            ELSE CoerceNumeric(SetDateIndex(frame))

\* str.upper() on the symbols of the model.
Upper(s) == IF s = "test" THEN "TEST" ELSE s

Url(api_base_url, symbol, start_date, end_date) ==
    <<api_base_url, "/data/stock/", symbol, "?from=", start_date, "&to=", end_date>>

\* ------------------------------------------------------- derived columns
Max(a, b) == IF a >= b THEN a ELSE b

IsNum(c) == c.k \in {"num", "float"}

\* The sum of the numbers among vals[lo..hi], each raised to the power p (1 or 2).
RECURSIVE SumFrom(_, _, _, _)
SumFrom(vals, lo, hi, p) ==
    IF lo > hi THEN 0
    ELSE IF lo = hi
         THEN (IF IsNum(vals[lo]) THEN (IF p = 2 THEN vals[lo].v * vals[lo].v ELSE vals[lo].v)
               ELSE 0)
         ELSE LET mid == (lo + hi) \div 2
              IN SumFrom(vals, lo, mid, p) + SumFrom(vals, mid + 1, hi, p)

\* How many of vals[lo..hi] are numbers.
CountFrom(vals, lo, hi) == Cardinality({i \in lo..hi : IsNum(vals[i])})

\* Series.rolling(window).mean(): min_periods left at its default, the window.
RollingMeanFullWindow(vals, window, min_periods) ==
    [i \in 1..Len(vals) |->
        LET lo == Max(1, i - window + 1)
            count == Cardinality({j \in lo..i : IsNum(vals[j])})
        IN IF count >= window
           THEN Float(SumFrom(vals, lo, i, 1), count)
           ELSE NaN]

\* Series.rolling(window, min_periods).mean()
RollingMean(vals, window, min_periods) ==
    [i \in 1..Len(vals) |->
        LET lo == Max(1, i - window + 1)
            count == CountFrom(vals, lo, i)
        IN IF count >= min_periods /\ count >= 1
           THEN Float(SumFrom(vals, lo, i, 1), count)
           ELSE NaN]

\* Series.rolling(window, min_periods).std(): the sample deviation, kept as the
\* variance v / n under the root.
RollingStd(vals, window, min_periods) ==
    [i \in 1..Len(vals) |->
        LET lo == Max(1, i - window + 1)
            count == CountFrom(vals, lo, i)
            total == SumFrom(vals, lo, i, 1)
        IN IF count >= min_periods /\ count >= 2
           THEN [k |-> "sqrt", v |-> count * SumFrom(vals, lo, i, 2) - total * total,
                 n |-> count * (count - 1)]
           ELSE NaN]

\* Series.ffill(): each missing value takes the last number before it.
LastNumber(vals, i) ==
    IF IsNum(vals[i]) THEN vals[i]
    ELSE LET before == {j \in 1..i : IsNum(vals[j])}
         IN IF before = {} THEN NaN
            ELSE vals[CHOOSE j \in before : \A other \in before : other <= j]

\* Series.pct_change() alone, a fraction: without the * 100 of line 100.
PctChangeFraction(vals, pad) ==
    LET filled == IF pad THEN [i \in 1..Len(vals) |-> LastNumber(vals, i)] ELSE vals
    IN [i \in 1..Len(vals) |->
          IF i = 1 THEN NaN
          ELSE IF IsNum(filled[i]) /\ IsNum(filled[i - 1])
               THEN Float(filled[i].v - filled[i - 1].v, filled[i - 1].v)
               ELSE NaN]

\* Series.pct_change() * 100; pad is pandas' fill_method='pad', the default of
\* the versions before 3.0.
PctChange100(vals, pad) ==
    LET filled == IF pad THEN [i \in 1..Len(vals) |-> LastNumber(vals, i)] ELSE vals
    IN [i \in 1..Len(vals) |->
          IF i = 1 THEN NaN
          ELSE IF IsNum(filled[i]) /\ IsNum(filled[i - 1])
               THEN Float(100 * (filled[i].v - filled[i - 1].v), filled[i - 1].v)
               ELSE NaN]

AllNull(vals) == \A i \in 1..Len(vals) : IsNull(vals[i])

\* df[name] = vals
SetColumn(frame, name, vals) ==
    IF name \in Columns(frame)
    THEN [frame EXCEPT !.cols = [j \in 1..Len(frame.cols) |->
            IF frame.cols[j].name = name THEN [frame.cols[j] EXCEPT !.vals = vals]
            ELSE frame.cols[j]]]
    ELSE [frame EXCEPT !.cols = Append(@, [name |-> name, vals |-> vals])]

\* Lines 67-77 of update_charts for one moving average.
WithMovingAverage(frame, flag, window, ma_selected_values) ==
    IF "Close" \in Columns(frame) /\ flag \in ma_selected_values
    THEN SetColumn(frame, flag, RollingMean(Column(frame, "Close"), window, 1))
    ELSE frame

\* Lines 71-72 and 76-77 without the isnull().all() test: the trace is always added.
MovingAverageTraceAlways(frame, flag, trace) ==
    IF flag \in Columns(frame) THEN <<trace>> ELSE <<>>

MovingAverageTrace(frame, flag, trace) ==
    IF flag \in Columns(frame) /\ ~AllNull(Column(frame, flag)) THEN <<trace>> ELSE <<>>

WithDailyReturn(frame, return_toggle_value, pad) ==
    IF "SHOW_RETURNS" \in return_toggle_value /\ "Close" \in Columns(frame)
       /\ Len(frame.index) > 0
    THEN SetColumn(frame, "Daily Return", PctChange100(Column(frame, "Close"), pad))
    ELSE frame

\* Line 112 without its first condition: the volatility whatever the toggle.
WithVolatilityAlways(frame, volatility_toggle_value) ==
    IF "Close" \in Columns(frame) /\ Len(frame.index) > 0
    THEN SetColumn(frame, "Volatility", RollingStd(Column(frame, "Close"), VOL_WINDOW, 1))
    ELSE frame

WithVolatility(frame, volatility_toggle_value) ==
    IF "SHOW_VOLATILITY" \in volatility_toggle_value /\ "Close" \in Columns(frame)
       /\ Len(frame.index) > 0
    THEN SetColumn(frame, "Volatility", RollingStd(Column(frame, "Close"), VOL_WINDOW, 1))
    ELSE frame

\* The frame update_charts ends with, given the frame fetched and the toggles.
Derive(frame, ma_selected_values, return_toggle_value, volatility_toggle_value, pad) ==
    WithVolatility(
        WithDailyReturn(
            WithMovingAverage(
                WithMovingAverage(frame, "MA50", MA50_WINDOW, ma_selected_values),
                "MA200", MA200_WINDOW, ma_selected_values),
            return_toggle_value, pad),
        volatility_toggle_value)

NoFigures == [price |-> <<>>, volume |-> <<>>, returns |-> <<>>, volatility |-> <<>>]

Figures(frame) ==
    [price |-> <<"Close">> \o MovingAverageTrace(frame, "MA50", "50-Day MA")
                 \o MovingAverageTrace(frame, "MA200", "200-Day MA"),
     volume |-> <<"Volume">>,
     returns |-> IF "Daily Return" \in Columns(frame) THEN <<"Daily Return">> ELSE <<>>,
     volatility |-> IF "Volatility" \in Columns(frame) THEN <<"30-Day Volatility">> ELSE <<>>]

\* --------------------------------------------------------------- exceptions
RequestExceptions ==
    {"ConnectionError", "Timeout", "HTTPError", "requests.JSONDecodeError"}

\* Subclasses of Exception; KeyboardInterrupt and SystemExit are not.
Exceptions ==
    RequestExceptions
    \cup {"json.JSONDecodeError", "UnicodeDecodeError", "AttributeError", "ValueError",
          "TypeError"}

\* The outer try without its last clause, except Exception.
HandlerNoCatchAll(exc) ==
    IF exc = "HTTPError" THEN "http_error"
    ELSE IF exc \in RequestExceptions THEN "request_error"
    ELSE "uncaught"

\* The except clause of fetch_stock_data's outer try that takes an exception.
Handler(exc) ==
    IF exc = "HTTPError" THEN "http_error"
    ELSE IF exc \in RequestExceptions THEN "request_error"
    ELSE IF exc \in Exceptions THEN "unexpected_error"
    ELSE "uncaught"

\* ------------------------------------------------------------------- state
VARIABLES pc, caller, args, response, requests, parsed, df, out, toggles, figs, error_message,
          waiting

vars == <<pc, caller, args, response, requests, parsed, df, out, toggles, figs, error_message,
         waiting>>

NoArgs == [symbol |-> "", start_date |-> "", end_date |-> "", api_base_url |-> ""]

NoToggles == [ma |-> {}, returns |-> {}, volatility |-> {}]

\* parsed_json_data before response.json() has run.
NoDocument ==
    [shape |-> "none", has_symbol |-> FALSE, symbol |-> NotStr, has_data |-> FALSE,
     data_kind |-> "none", rows |-> <<>>]

NoResponse == [outcome |-> "none", body |-> "none", doc |-> NoDocument]

\* The parameters and local variables of an invocation that has not begun.
IdleLocals ==
    [pc |-> "idle", caller |-> "", args |-> NoArgs, response |-> NoResponse,
     requests |-> <<>>, parsed |-> NoDocument, df |-> EmptyFrame, out |-> <<>>,
     toggles |-> NoToggles, figs |-> NoFigures, error_message |-> ""]

Init ==
    /\ pc = "idle"
    /\ caller = ""
    /\ args = NoArgs
    /\ response = NoResponse
    /\ requests = <<>>
    /\ parsed = NoDocument
    /\ df = EmptyFrame
    /\ out = <<>>
    /\ toggles = NoToggles
    /\ figs = NoFigures
    /\ error_message = ""
    /\ waiting = IdleLocals

\* An exception raised inside the outer try: the except clause that takes it
\* prints and returns pd.DataFrame(); with no clause for it, it leaves the call.
Raise(exc) ==
    IF Handler(exc) = "uncaught"
    THEN /\ pc' = "escaped"
         /\ UNCHANGED <<df, out>>
    ELSE /\ out' = Append(out, Handler(exc))
         /\ df' = EmptyFrame
         /\ pc' = "returned"

ReturnEmpty(message) ==
    /\ out' = Append(out, message)
    /\ df' = EmptyFrame
    /\ pc' = "returned"

Symbols == {"", "TEST"}

\* fetch_stock_data is called alone, as the tests call it.
Call ==
    /\ pc = "idle"
    /\ caller' = "test"
    /\ args' = [symbol |-> REQUESTED_SYMBOL, start_date |-> "2024-01-01",
                end_date |-> "2024-01-02", api_base_url |-> TEST_API_BASE_URL]
    /\ pc' = "get"
    /\ UNCHANGED <<response, requests, parsed, df, out, toggles, figs, error_message, waiting>>

\* update_charts is called; with its arguments present it calls fetch_stock_data.
UpdateCharts ==
    /\ pc = "idle"
    /\ caller' = "update_charts"
    /\ \E symbol \in Symbols :
          /\ args' = [symbol |-> symbol, start_date |-> "2024-01-01",
                      end_date |-> "2024-01-02", api_base_url |-> DEFAULT_API_BASE_URL]
          /\ pc' = IF symbol = "" THEN "done" ELSE "get"
          /\ error_message' = IF symbol = "" THEN "missing_arguments" ELSE ""
    /\ UNCHANGED <<response, requests, parsed, df, out, toggles, figs, waiting>>

\* Get with one more attempt after a transport failure.
GetRetrying ==
    /\ pc = "get"
    /\ \E n \in LengthsOf(caller) : \E ds \in [1..MaxDefects -> DefectsOf(n, caller)] :
       LET resp == Defective(n, ds) IN
          /\ response' = resp
          /\ requests' = Append(requests,
                [url |-> Url(args.api_base_url, args.symbol, args.start_date, args.end_date),
                 timeout |-> TIMEOUT])
          /\ IF resp.outcome = "ok"
             THEN /\ pc' = "parse"
                  /\ UNCHANGED <<df, out>>
             ELSE IF requests = <<>>
                  THEN /\ pc' = "get"
                       /\ UNCHANGED <<df, out>>
                  ELSE Raise(resp.outcome)
    /\ UNCHANGED <<caller, args, parsed, toggles, figs, error_message, waiting>>

\* requests.get(api_url, timeout=10); response.raise_for_status()
Get ==
    /\ pc = "get"
    /\ \E n \in LengthsOf(caller) : \E ds \in [1..MaxDefects -> DefectsOf(n, caller)] :
       LET resp == Defective(n, ds) IN
          /\ response' = resp
          /\ requests' = Append(requests,
                [url |-> Url(args.api_base_url, args.symbol, args.start_date, args.end_date),
                 timeout |-> TIMEOUT])
          /\ IF resp.outcome = "ok"
             THEN /\ pc' = "parse"
                  /\ UNCHANGED <<df, out>>
             ELSE Raise(resp.outcome)
    /\ UNCHANGED <<caller, args, parsed, toggles, figs, error_message, waiting>>

\* parsed_json_data = response.json(), with its two inner except clauses
ParseJson ==
    /\ pc = "parse"
    /\ CASE response.body = "json" ->
                /\ parsed' = response.doc
                /\ pc' = "validate"
                /\ UNCHANGED <<df, out>>
         [] response.body \in {"json.JSONDecodeError", "requests.JSONDecodeError"} ->
                /\ ReturnEmpty("decode_error")
                /\ UNCHANGED parsed
         [] OTHER ->
                /\ Raise(response.body)
                /\ UNCHANGED parsed
    /\ UNCHANGED <<caller, args, response, requests, toggles, figs, error_message, waiting>>

\* The structural gate without isinstance(parsed_json_data['data'], list).
ValidStructureNoListCheck(doc) ==
    /\ doc.shape = "mapping"
    /\ doc.has_symbol
    /\ doc.has_data

ValidStructure(doc) ==
    /\ doc.shape = "mapping"
    /\ doc.has_symbol
    /\ doc.has_data
    /\ doc.data_kind = "list"

\* Validate without the emptiness gate of lines 51-53.
ValidateNoEmptinessGate ==
    /\ pc = "validate"
    /\ IF ~ValidStructure(parsed) THEN ReturnEmpty("invalid_format")
       ELSE IF parsed.symbol.k # "str" THEN Raise("AttributeError")
       ELSE /\ out' = IF Upper(parsed.symbol.s) # Upper(args.symbol)
                      THEN Append(out, "symbol_warning") ELSE out
            /\ pc' = "frame"
            /\ UNCHANGED df
    /\ UNCHANGED <<caller, args, response, requests, parsed, toggles, figs, error_message, waiting>>

\* Validate with the strict policy line 49 mentions: a foreign symbol is rejected.
ValidateStrict ==
    /\ pc = "validate"
    /\ IF ~ValidStructure(parsed) THEN ReturnEmpty("invalid_format")
       ELSE IF parsed.symbol.k # "str" THEN Raise("AttributeError")
       ELSE IF Upper(parsed.symbol.s) # Upper(args.symbol) THEN ReturnEmpty("symbol_warning")
       ELSE IF parsed.rows = <<>> THEN ReturnEmpty("no_data_points")
       ELSE /\ pc' = "frame"
            /\ UNCHANGED <<df, out>>
    /\ UNCHANGED <<caller, args, response, requests, parsed, toggles, figs, error_message, waiting>>

\* The structural gate, the symbol comparison and the emptiness gate.
Validate ==
    /\ pc = "validate"
    /\ IF ~ValidStructure(parsed) THEN ReturnEmpty("invalid_format")
       ELSE IF parsed.symbol.k # "str" THEN Raise("AttributeError")
       ELSE LET warned == IF Upper(parsed.symbol.s) # Upper(args.symbol)
                          THEN Append(out, "symbol_warning") ELSE out
            IN IF parsed.rows = <<>>
               THEN /\ out' = Append(warned, "no_data_points")
                    /\ df' = EmptyFrame
                    /\ pc' = "returned"
               ELSE /\ out' = warned
                    /\ pc' = "frame"
                    /\ UNCHANGED df
    /\ UNCHANGED <<caller, args, response, requests, parsed, toggles, figs, error_message, waiting>>

\* df = pd.DataFrame(data); df.rename(columns=column_mapping); required_cols gate
BuildFrame ==
    /\ pc = "frame"
    /\ LET frame == Rename(DataFrame(parsed.rows))
       IN IF HasRequiredCols(frame)
          THEN /\ df' = frame
               /\ pc' = "index"
               /\ UNCHANGED out
          ELSE ReturnEmpty("missing_columns")
    /\ UNCHANGED <<caller, args, response, requests, parsed, toggles, figs, error_message, waiting>>

\* df['Date'] = pd.to_datetime(df['Date']); df.set_index('Date')
SetIndex ==
    /\ pc = "index"
    /\ IF ToDatetimeRaises(df) THEN Raise("ValueError")
       ELSE /\ df' = SetDateIndex(df)
            /\ pc' = "coerce"
            /\ UNCHANGED out
    /\ UNCHANGED <<caller, args, response, requests, parsed, toggles, figs, error_message, waiting>>

\* pd.to_numeric on Open, High, Low, Close and Volume; the NaN warning; return df
Coerce ==
    /\ pc = "coerce"
    /\ IF ToNumericRaises(df) THEN Raise("TypeError")
       ELSE LET frame == CoerceNumeric(df)
            IN /\ df' = frame
               /\ out' = IF AnyNull(frame) THEN Append(out, "nan_warning") ELSE out
               /\ pc' = "returned"
    /\ UNCHANGED <<caller, args, response, requests, parsed, toggles, figs, error_message, waiting>>

\* The callers that are update_charts: called once, or while another invocation runs.
ChartCallers == {"update_charts", "rapid_update"}

\* Lines 52-58 of update_charts: an empty frame ends the callback with a message.
CheckEmpty ==
    /\ pc = "returned"
    /\ caller \in ChartCallers
    /\ IF Empty(df)
       THEN /\ error_message' = "no_data"
            /\ pc' = "done"
       ELSE /\ pc' = "charts"
            /\ UNCHANGED error_message
    /\ UNCHANGED <<caller, args, response, requests, parsed, df, out, toggles, figs, waiting>>

MaToggles == SUBSET {"MA50", "MA200"}

ReturnToggles == SUBSET {"SHOW_RETURNS"}

VolatilityToggles == SUBSET {"SHOW_VOLATILITY"}

\* Lines 63-125 of update_charts: the derived columns and the four figures.  The
\* toggles are arguments of the call; they are first read here.
DrawCharts ==
    /\ pc = "charts"
    /\ \E ma \in MaToggles, returns \in ReturnToggles, volatility \in VolatilityToggles,
          pad \in BOOLEAN :
          LET frame == Derive(df, ma, returns, volatility, pad)
          IN /\ toggles' = [ma |-> ma, returns |-> returns, volatility |-> volatility]
             /\ df' = frame
             /\ figs' = Figures(frame)
    /\ pc' = "done"
    /\ UNCHANGED <<caller, args, response, requests, parsed, out, error_message, waiting>>

Next ==
    \/ Call
    \/ UpdateCharts
    \/ Get
    \/ ParseJson
    \/ Validate
    \/ BuildFrame
    \/ SetIndex
    \/ Coerce
    \/ CheckEmpty
    \/ DrawCharts

Spec == Init /\ [][Next]_vars

\* ---------------------------------------------------- two invocations at once
\* The state variables other than waiting are the parameters and local
\* variables of the invocation that is running; waiting holds those of the
\* invocation that is not.  Neither function has a global, a default argument
\* that is mutable or an attribute it writes.
Locals ==
    [pc |-> pc, caller |-> caller, args |-> args, response |-> response,
     requests |-> requests, parsed |-> parsed, df |-> df, out |-> out,
     toggles |-> toggles, figs |-> figs, error_message |-> error_message]

RapidSymbols == {"TEST", "OTHR"}

\* Dash calls update_charts for a change of the inputs while another invocation
\* may be under way.
RapidUpdate ==
    /\ pc = "idle"
    /\ caller' = "rapid_update"
    /\ \E symbol \in RapidSymbols :
          args' = [symbol |-> symbol, start_date |-> "2024-01-01",
                   end_date |-> "2024-01-02", api_base_url |-> DEFAULT_API_BASE_URL]
    /\ pc' = "get"
    /\ UNCHANGED <<response, requests, parsed, df, out, toggles, figs, error_message, waiting>>

\* The two invocations with df a variable of the module: the frame is not
\* set aside with the rest of an invocation's variables.
SwitchSharingFrame ==
    /\ pc' = waiting.pc
    /\ caller' = waiting.caller
    /\ args' = waiting.args
    /\ response' = waiting.response
    /\ requests' = waiting.requests
    /\ parsed' = waiting.parsed
    /\ out' = waiting.out
    /\ toggles' = waiting.toggles
    /\ figs' = waiting.figs
    /\ error_message' = waiting.error_message
    /\ waiting' = Locals
    /\ UNCHANGED df

\* The scheduler takes the running invocation off and puts the other one on:
\* each goes on with its own parameters and local variables.
Switch ==
    /\ pc' = waiting.pc
    /\ caller' = waiting.caller
    /\ args' = waiting.args
    /\ response' = waiting.response
    /\ requests' = waiting.requests
    /\ parsed' = waiting.parsed
    /\ df' = waiting.df
    /\ out' = waiting.out
    /\ toggles' = waiting.toggles
    /\ figs' = waiting.figs
    /\ error_message' = waiting.error_message
    /\ waiting' = Locals

NextTwo ==
    \/ RapidUpdate
    \/ Get
    \/ ParseJson
    \/ Validate
    \/ BuildFrame
    \/ SetIndex
    \/ Coerce
    \/ CheckEmpty
    \/ DrawCharts
    \/ Switch

SpecTwo == Init /\ [][NextTwo]_vars

\* ------------------------------------------------------------------ claims
\* What the remote answered, as the claims speak of it.
Rows == response.doc.rows

Reason == IF out = <<>> THEN "" ELSE out[Len(out)]

Answered == response.outcome = "ok" /\ response.body = "json"

\* The structural gate of the specification, on the answer itself.
WellFormed ==
    /\ response.doc.shape = "mapping"
    /\ response.doc.has_symbol
    /\ response.doc.has_data
    /\ response.doc.data_kind = "list"

SymbolIsText == response.doc.symbol.k = "str"

\* C1: no exception leaves fetch_stock_data, and after a transport failure, a
\* decode failure or an error raised while the payload is processed the frame
\* returned has no rows.
C1_FailSoft ==
    /\ pc # "escaped"
    /\ (pc = "returned"
         /\ (\/ response.outcome # "ok"
             \/ response.body # "json"
             \/ Reason \in {"http_error", "request_error", "decode_error",
                            "unexpected_error"}))
        => (Empty(df) /\ Len(df.index) = 0)

\* An error raised while a decoded, well-formed payload is processed was caught.
C1_Witness ==
    /\ pc = "returned"
    /\ Answered /\ WellFormed /\ SymbolIsText /\ Rows # <<>>
    /\ Reason = "unexpected_error"
    /\ Empty(df)

\* C2: a decoded document that is no mapping, lacks symbol, lacks data or whose
\* data is no list gives an empty frame, whatever else it holds.
C2_SchemaMismatchIsEmpty ==
    (pc = "returned" /\ Answered /\ ~WellFormed) => Empty(df)

\* A document whose data is no list, with a point-record and a foreign symbol.
C2_Witness ==
    /\ pc = "returned"
    /\ Answered
    /\ response.doc.data_kind # "list"
    /\ response.doc.symbol = Str("OTHR")
    /\ Rows # <<>>
    /\ Empty(df)

\* C3: a well-formed document whose data list is empty gives an empty frame
\* whatever its symbol is: by the emptiness gate when the symbol is text, by the
\* catch-all clause when it is not.
C3_EmptyDataIsEmpty ==
    (pc = "returned" /\ Answered /\ WellFormed /\ Rows = <<>>)
        => /\ Empty(df)
           /\ Reason = IF SymbolIsText THEN "no_data_points" ELSE "unexpected_error"

\* An empty data list under a foreign symbol.
C3_Witness ==
    /\ pc = "returned"
    /\ Answered /\ WellFormed
    /\ Rows = <<>>
    /\ response.doc.symbol = Str("OTHR")
    /\ Empty(df)

CanonicalFields == {"Date", "Open", "High", "Low", "Close", "Volume"}

ApiKeyOf ==
    [Date |-> "date", Open |-> "open", High |-> "high", Low |-> "low",
     Close |-> "close", Volume |-> "volume"]

\* The point-record gives the canonical field, under its API key or already
\* under its canonical name.
Gives(row, field) == ApiKeyOf[field] \in DOMAIN row \/ field \in DOMAIN row

Given(row, field) ==
    IF ApiKeyOf[field] \in DOMAIN row THEN row[ApiKeyOf[field]] ELSE row[field]

AbsentEverywhere(field) == \A i \in 1..Len(Rows) : ~Gives(Rows[i], field)

\* The payload makes a later step raise: two keys of the payload map to one
\* canonical field, or a date is no date.
PayloadRaises ==
    \/ \E field \in CanonicalFields :
          /\ \E i \in 1..Len(Rows) : ApiKeyOf[field] \in DOMAIN Rows[i]
          /\ \E i \in 1..Len(Rows) : field \in DOMAIN Rows[i]
    \/ \E i \in 1..Len(Rows) : Gives(Rows[i], "Date") /\ Given(Rows[i], "Date").k = "text"

\* C4: a canonical field that no point-record gives makes the frame empty, by
\* the column gate; when every canonical field is given by some point-record,
\* values missing inside a column leave the frame with one row per record.
C4_ColumnCompleteness ==
    /\ (pc = "returned" /\ Answered /\ WellFormed /\ Rows # <<>>
         /\ \E field \in CanonicalFields : AbsentEverywhere(field))
        => /\ Empty(df)
           /\ SymbolIsText => Reason = "missing_columns"
    /\ (pc = "returned" /\ Answered /\ WellFormed /\ SymbolIsText /\ Rows # <<>>
         /\ \A field \in CanonicalFields : ~AbsentEverywhere(field)
         /\ ~PayloadRaises)
        => /\ ~Empty(df)
           /\ Len(df.index) = Len(Rows)

\* Open is given by the second point-record alone: the frame keeps both rows
\* and holds the sentinel in the first.
C4_Witness ==
    /\ pc = "returned"
    /\ Len(Rows) = 2
    /\ ~Gives(Rows[1], "Open") /\ Gives(Rows[2], "Open")
    /\ ~Empty(df)
    /\ Column(df, "Open")[1] = NaN
    /\ Column(df, "Open")[2].k = "num"

NumericFields == {"Open", "High", "Low", "Close", "Volume"}

\* The point-records are those of the documented answer but for one value, which
\* is no number.
OneBadValue(r, field) ==
    /\ r \in 1..Len(Rows)
    /\ Rows = [BaseRows(Len(Rows)) EXCEPT ![r][ApiKeyOf[field]] = Text]

\* C5: numeric coercion is per value.  In every frame returned, a value the
\* payload gives as a number is kept and one it gives as non-numeric text is
\* the sentinel; and when one value of one row is no number the frame is not
\* empty and holds the sentinel there and nowhere else.
C5_CoercionIsPerValue ==
    /\ (pc = "returned" /\ ~Empty(df))
        => \A i \in 1..Len(Rows) : \A field \in NumericFields :
              Gives(Rows[i], field)
              => /\ Given(Rows[i], field).k = "num"
                    => Column(df, field)[i] = Num(Given(Rows[i], field).v)
                 /\ Given(Rows[i], field).k = "text" => Column(df, field)[i] = NaN
    /\ \A r \in 1..Len(Rows) : \A bad \in NumericFields :
          (pc = "returned" /\ Answered /\ WellFormed /\ SymbolIsText /\ OneBadValue(r, bad))
          => /\ ~Empty(df)
             /\ Len(df.index) = Len(Rows)
             /\ \A i \in 1..Len(Rows) : \A field \in NumericFields :
                   Column(df, field)[i] =
                      IF i = r /\ field = bad THEN NaN
                      ELSE Num(BaseValue(i, ApiKeyOf[field]))

\* The example of the specification: open of the first of two rows is no number.
C5_Witness ==
    /\ pc = "returned"
    /\ Len(Rows) = 2
    /\ OneBadValue(1, "Open")
    /\ ~Empty(df)
    /\ Column(df, "Open")[1] = NaN
    /\ Column(df, "Open")[2] = Num(BaseValue(2, "open"))
    /\ Column(df, "Close")[1] = Num(BaseValue(1, "close"))

\* A valid payload: every point-record has the six API keys, a date and five
\* numbers, and the dates increase strictly.
ValidPayload ==
    /\ Answered /\ WellFormed /\ SymbolIsText
    /\ Rows # <<>>
    /\ \A i \in 1..Len(Rows) :
          /\ DOMAIN Rows[i] = ApiKeys
          /\ Rows[i]["date"].k = "iso"
          /\ \A field \in NumericFields : Rows[i][ApiKeyOf[field]].k = "num"
    /\ \A i \in 1..Len(Rows) : \A j \in 1..Len(Rows) :
          i < j => Rows[i]["date"].v < Rows[j]["date"].v

\* C6: a valid payload of N point-records gives a frame of N rows, indexed by
\* the payload's dates in payload order, with the payload's numbers row by row.
C6_ValidPayloadIsKept ==
    (pc = "returned" /\ ValidPayload)
        => /\ Len(df.index) = Len(Rows)
           /\ Columns(df) = NumericFields
           /\ \A i \in 1..Len(Rows) :
                 /\ df.index[i] = Timestamp(Rows[i]["date"].v)
                 /\ \A field \in NumericFields :
                       Column(df, field)[i] = Num(Rows[i][ApiKeyOf[field]].v)

\* A valid payload of two point-records was returned as a frame of two rows.
C6_Witness ==
    /\ pc = "returned"
    /\ ValidPayload
    /\ Len(Rows) = 2
    /\ Len(df.index) = 2
    /\ df.index[2] = Timestamp(2)

\* C7: the dates of every non-empty frame returned are unique and strictly
\* increasing.
C7_DatesStrictlyIncreasing ==
    (pc = "returned" /\ ~Empty(df))
        => \A i \in 1..Len(df.index) : \A j \in 1..Len(df.index) :
              i < j => /\ df.index[i].k = "ts"
                       /\ df.index[j].k = "ts"
                       /\ df.index[i].v < df.index[j].v

\* The symbol of the answer is not the requested one, compared without case.
ForeignSymbol ==
    /\ SymbolIsText
    /\ response.doc.symbol.s \notin {"TEST", "test"}

Warned == \E i \in 1..Len(out) : out[i] = "symbol_warning"

\* C8: the frame returned for a well-formed document with a text symbol is the
\* one the point-records alone decide, the same under a foreign symbol as under
\* the requested one; a foreign symbol is only warned of.
C8_ForeignSymbolIsKept ==
    (pc = "returned" /\ Answered /\ WellFormed /\ SymbolIsText)
        => /\ df = SeriesOf(Rows)
           /\ Warned <=> ForeignSymbol

\* A foreign symbol was warned of and the frame returned has rows.
C8_Witness ==
    /\ pc = "returned"
    /\ Answered /\ WellFormed
    /\ ForeignSymbol
    /\ Warned
    /\ ~Empty(df)
    /\ df = SeriesOf(Rows)

\* C9: a call of fetch_stock_data issues its one request, to the documented
\* URL with timeout 10, before anything is parsed, validated or printed, and no
\* further request whatever the outcome.
C9_OneRequest ==
    /\ pc \in {"idle", "get"}
        => /\ requests = <<>>
           /\ parsed = NoDocument
           /\ out = <<>>
           /\ df = EmptyFrame
    /\ (pc \notin {"idle", "get"} /\ args.symbol # "")
        => requests = << [url |-> <<args.api_base_url, "/data/stock/", args.symbol,
                                    "?from=", args.start_date, "&to=", args.end_date>>,
                          timeout |-> 10] >>
    /\ args.symbol = "" => requests = <<>>

\* The request timed out and the call returned after that one request.
C9_Witness ==
    /\ pc = "returned"
    /\ response.outcome = "Timeout"
    /\ Len(requests) = 1
    /\ Empty(df)

\* The sum of the numbers vals[lo..hi].
RECURSIVE Total(_, _, _)
Total(vals, lo, hi) ==
    IF lo > hi THEN 0
    ELSE IF lo = hi THEN vals[lo].v
    ELSE Total(vals, lo, (lo + hi) \div 2) + Total(vals, ((lo + hi) \div 2) + 1, hi)

\* The moving average column is the mean of Close over the trailing
\* min(i, window) rows, wherever those rows are all numbers.
IsTrailingMean(flag, window) ==
    (pc = "done" /\ figs # NoFigures /\ flag \in toggles.ma)
        => /\ flag \in Columns(df)
           /\ LET close == Column(df, "Close")
                   ma == Column(df, flag)
               IN /\ \A i \in 1..Len(close) :
                        (\A j \in (i - Min(i, window) + 1)..i : close[j].k = "num")
                        => /\ ma[i].k = "float"
                           /\ ma[i].v * Min(i, window)
                                 = ma[i].n * Total(close, i - Min(i, window) + 1, i)
                  /\ close[1].k = "num" => ma[1].v = ma[1].n * close[1].v
                  /\ (\A j \in 1..Len(close) : close[j].k = "num")
                        => \A i \in 1..Len(close) : ~IsNull(ma[i])

\* C10: MA50 (MA200) at row i is the mean of Close over the trailing min(i, 50)
\* (min(i, 200)) rows: the first row is its own Close, the second the mean of
\* the first two, and no row is the sentinel when every Close is a number.
C10_MovingAverages ==
    /\ IsTrailingMean("MA50", 50)
    /\ IsTrailingMean("MA200", 200)

\* Both averages were drawn over a series longer than the longer window.
C10_Witness ==
    /\ pc = "done"
    /\ toggles.ma = {"MA50", "MA200"}
    /\ Len(df.index) > 200
    /\ \A i \in 1..Len(df.index) : Column(df, "Close")[i].k = "num"
    /\ Column(df, "MA200")[201].k = "float"
    /\ Column(df, "MA50")[2].v * 2
          = Column(df, "MA50")[2].n * (Column(df, "Close")[1].v + Column(df, "Close")[2].v)

\* The daily return was requested and the derivation ran on a non-empty frame.
ReturnsDrawn == pc = "done" /\ figs # NoFigures /\ "SHOW_RETURNS" \in toggles.returns

\* C11: when the daily return is requested on a non-empty series, its first row
\* is the sentinel and every later row t whose Close and whose previous Close
\* are numbers is (Close[t] - Close[t-1]) / Close[t-1] * 100; for the Close
\* sequence 100, 110 the second row is 10.
C11_DailyReturn ==
    /\ ReturnsDrawn
        => /\ "Daily Return" \in Columns(df)
           /\ LET close == Column(df, "Close")
                   ret == Column(df, "Daily Return")
               IN /\ Len(ret) = Len(close)
                  /\ ret[1] = NaN
                  /\ \A t \in 2..Len(close) :
                        (close[t].k = "num" /\ close[t - 1].k = "num")
                        => /\ ret[t].k = "float"
                           /\ ret[t].n = close[t - 1].v
                           /\ ret[t].v * close[t - 1].v
                                 = ret[t].n * (close[t].v - close[t - 1].v) * 100
    /\ \A pad \in BOOLEAN :
          LET ret == PctChange100(<<Num(100), Num(110)>>, pad)
          IN /\ ret[1] = NaN
             /\ ret[2].k = "float"
             /\ ret[2].v = 10 * ret[2].n

\* The daily return was drawn over two rows whose Close are numbers: the first
\* row is the sentinel and the second the change in percent, which is not zero.
C11_Witness ==
    /\ ReturnsDrawn
    /\ Len(df.index) = 2
    /\ Column(df, "Close")[1].k = "num" /\ Column(df, "Close")[2].k = "num"
    /\ Column(df, "Daily Return")[1] = NaN
    /\ Column(df, "Daily Return")[2].k = "float"
    /\ Column(df, "Daily Return")[2].v
          = 100 * (Column(df, "Close")[2].v - Column(df, "Close")[1].v)
    /\ Column(df, "Daily Return")[2].v # 0

DerivedColumns == {"MA50", "MA200", "Daily Return", "Volatility"}

\* The toggle value that asks for a derived column.
FlagOf ==
    [c \in DerivedColumns |->
        CASE c = "MA50" -> "MA50"
          [] c = "MA200" -> "MA200"
          [] c = "Daily Return" -> "SHOW_RETURNS"
          [] c = "Volatility" -> "SHOW_VOLATILITY"]

Requested == toggles.ma \cup toggles.returns \cup toggles.volatility

\* C12: a derived column is in the frame only if its flag was requested and
\* the frame fetched has rows.  When the frame fetched is empty, or the
\* arguments are missing, the callback ends with the frame as fetched, with no
\* derived column and no figure drawn; a column whose flag was not requested is
\* never there, whatever the other flags are.
C12_DerivedOnlyIfRequested ==
    /\ \A c \in DerivedColumns :
          c \in Columns(df)
          => /\ FlagOf[c] \in Requested
             /\ pc = "done"
             /\ ~Empty(df)
             /\ df.index = SeriesOf(Rows).index
    /\ (pc = "done" /\ error_message \in {"no_data", "missing_arguments"})
        => /\ df = EmptyFrame
           /\ figs = NoFigures
    /\ (pc = "done" /\ error_message = "")
        => /\ ~Empty(SeriesOf(Rows))
           /\ \A j \in 1..Len(SeriesOf(Rows).cols) : df.cols[j] = SeriesOf(Rows).cols[j]

\* MA200 and the daily return were requested, MA50 and the volatility were not:
\* the frame holds the first two and neither of the others.
C12_Witness ==
    /\ pc = "done"
    /\ toggles = [ma |-> {"MA200"}, returns |-> {"SHOW_RETURNS"}, volatility |-> {}]
    /\ Columns(df) \cap DerivedColumns = {"MA200", "Daily Return"}
    /\ Len(df.index) = 2

MovingAverages == {"MA50", "MA200"}

TraceOf == [flag \in MovingAverages |-> IF flag = "MA50" THEN "50-Day MA" ELSE "200-Day MA"]

Traced(flag) == \E j \in 1..Len(figs.price) : figs.price[j] = TraceOf[flag]

\* The moving average was requested and the derivation ran on a non-empty frame.
AverageDrawn(flag) == pc = "done" /\ figs # NoFigures /\ flag \in toggles.ma

CloseUnusable == \A i \in 1..Len(df.index) : IsNull(Column(df, "Close")[i])

\* C13 as stated: a requested moving average whose every value is the sentinel,
\* Close being unusable in every row, is not a column of the augmented frame.
C13_AllSentinelColumnOmitted ==
    \A flag \in MovingAverages :
        (AverageDrawn(flag) /\ CloseUnusable) => flag \notin Columns(df)

\* C13 amended: a requested moving average is a column of the frame whatever
\* its values; when every value is the sentinel, which is when Close is unusable
\* in every row, the column holds the sentinel in every row and only its trace
\* is left out of the price figure.
C13_AllSentinelTraceOmitted ==
    \A flag \in MovingAverages :
        AverageDrawn(flag)
        => /\ flag \in Columns(df)
           /\ Len(Column(df, flag)) = Len(df.index)
           /\ CloseUnusable <=> (\A i \in 1..Len(df.index) : Column(df, flag)[i] = NaN)
           /\ CloseUnusable <=> ~Traced(flag)
           /\ figs.price[1] = "Close"

\* MA50 was requested over a frame whose only Close is no number: the column is
\* there, holding the sentinel, and the price figure has the Close trace alone.
C13_Witness ==
    /\ AverageDrawn("MA50")
    /\ CloseUnusable
    /\ "MA50" \in Columns(df)
    /\ Column(df, "MA50") = <<NaN>>
    /\ figs.price = <<"Close">>

\* The frame fetch_stock_data returns for an answer, by the answer alone.
Fetched(resp) ==
    IF /\ resp.outcome = "ok"
       /\ resp.body = "json"
       /\ ValidStructure(resp.doc)
       /\ resp.doc.symbol.k = "str"
    THEN SeriesOf(resp.doc.rows)
    ELSE EmptyFrame

\* The one request an invocation makes, by its arguments alone.
OwnRequest(l) ==
    [url |-> <<l.args.api_base_url, "/data/stock/", l.args.symbol,
               "?from=", l.args.start_date, "&to=", l.args.end_date>>,
     timeout |-> 10]

\* The variables of invocation l are what its own arguments, its own answer and
\* its own toggles give when it runs alone.
AsIfAlone(l) ==
    /\ l.pc \in {"idle", "get"}
        => /\ l.requests = <<>>
           /\ l.response = NoResponse
           /\ l.df = EmptyFrame
           /\ l.figs = NoFigures
    /\ l.pc \notin {"idle", "get"}
        => /\ l.requests = <<OwnRequest(l)>>
           /\ l.parsed \in {NoDocument, l.response.doc}
    /\ l.pc \in {"returned", "charts", "done"}
        => LET fetched == Fetched(l.response)
           IN IF l.pc # "done"
              THEN /\ l.df = fetched
                   /\ l.figs = NoFigures
              ELSE IF Empty(fetched)
              THEN /\ l.df = EmptyFrame
                   /\ l.figs = NoFigures
                   /\ l.error_message = "no_data"
              ELSE /\ \E pad \in BOOLEAN :
                         l.df = Derive(fetched, l.toggles.ma, l.toggles.returns,
                                       l.toggles.volatility, pad)
                   /\ l.figs = Figures(l.df)
                   /\ l.error_message = ""

\* A step is a step of the running invocation, which leaves the variables of
\* the waiting one as they are, or a switch, which changes no variable of
\* either invocation.
OwnVariablesOnly ==
    \/ waiting' = waiting
    \/ waiting' = Locals /\ Locals' = waiting

\* C14: two invocations of update_charts, interleaved in any way, are
\* independent: the frame, the figures and the message of each are those its
\* own arguments, answer and toggles give when it runs alone, and no step of
\* one reads or writes a variable of the other.
C14_InvocationsIndependent ==
    /\ [](AsIfAlone(Locals) /\ AsIfAlone(waiting))
    /\ [][OwnVariablesOnly]_vars

\* Both invocations have ended, one for each symbol: the one whose request timed
\* out has the empty frame and the message, the other its own two rows with the
\* two columns it asked for, and neither holds anything of the other.
C14_Witness ==
    /\ pc = "done" /\ waiting.pc = "done"
    /\ args.symbol = "TEST" /\ waiting.args.symbol = "OTHR"
    /\ response.outcome = "Timeout"
    /\ df = EmptyFrame /\ error_message = "no_data"
    /\ waiting.response.outcome = "ok"
    /\ Len(waiting.df.index) = 2
    /\ waiting.toggles = [ma |-> {"MA50"}, returns |-> {}, volatility |-> {"SHOW_VOLATILITY"}]
    /\ Columns(waiting.df) \cap DerivedColumns = {"MA50", "Volatility"}
    /\ waiting.error_message = ""
    /\ toggles = NoToggles

\* The date of point-record i is text that is no date.
UnparseableDate(i) == Gives(Rows[i], "Date") /\ Given(Rows[i], "Date").k = "text"

\* Every value of point-record i is as the documented answer gives it.
FullyValid(i) == Rows[i] = BaseRow(i)

\* C15: date parsing is all-or-nothing.  When the date of any one point-record
\* cannot be parsed the frame returned is empty, with no row kept, dropped
\* alone or given a sentinel date, however valid the other records are; when the
\* payload passes the gates before the parse, the error is the one the
\* catch-all clause takes.
C15_DateParsingAllOrNothing ==
    /\ pc # "escaped"
    /\ (pc = "returned" /\ \E i \in 1..Len(Rows) : UnparseableDate(i))
        => /\ Empty(df)
           /\ Len(df.index) = 0
           /\ df = EmptyFrame
    /\ (pc = "returned" /\ Answered /\ WellFormed /\ SymbolIsText
         /\ (\E i \in 1..Len(Rows) : UnparseableDate(i))
         /\ \A field \in CanonicalFields : ~AbsentEverywhere(field))
        => Reason = "unexpected_error"

\* Two point-records, the first with a date that is no date and the second
\* fully valid: the frame returned is empty, by the catch-all clause.
C15_Witness ==
    /\ pc = "returned"
    /\ Answered /\ WellFormed /\ SymbolIsText
    /\ Len(Rows) = 2
    /\ UnparseableDate(1)
    /\ FullyValid(2)
    /\ Reason = "unexpected_error"
    /\ df = EmptyFrame

====
